---- MODULE Spec2Model ----
(***************************************************************************)
(* Learning-rate schedulers of coursework_1/mlp/schedulers.py:             *)
(* ConstantLearningRateScheduler and CosineAnnealingWithWarmRestarts.      *)
(*                                                                         *)
(* Python floats are IEEE-754 binary64 values.  A float is modelled by the *)
(* record [neg, m, e] whose value is (-1)^neg * m * 2^e, with m a natural  *)
(* number held as a little-endian sequence of limbs in base 2^15 (<<>> is  *)
(* 0) and m odd, so that equal floats are equal records.  Every float      *)
(* operation computes the exact result and rounds it to 53 significant     *)
(* bits that are multiples of 2^-1074, ties to even, as the hardware does   *)
(* (gradual underflow; -0.0 is held as 0.0, which it equals).  Overflow to *)
(* infinity is not modelled: no value of the model comes near 2^1024.      *)
(***************************************************************************)
EXTENDS Integers, Sequences, FiniteSets, TLC

\* ------------------------------------------------------------ naturals
\* Arbitrary-size naturals: little-endian limbs in base 2^15, no high zero limb.
LimbBits == 15
Base == 2^LimbBits

BLimb(a, i) == IF i <= Len(a) THEN a[i] ELSE 0

RECURSIVE BStrip(_)
BStrip(a) ==
    IF a = <<>> THEN <<>>
    ELSE IF a[Len(a)] = 0 THEN BStrip(SubSeq(a, 1, Len(a) - 1))
    ELSE a

RECURSIVE BAddC(_, _, _, _)
BAddC(a, b, i, c) ==
    IF i > Len(a) /\ i > Len(b)
    THEN IF c = 0 THEN <<>> ELSE <<c>>
    ELSE LET s == BLimb(a, i) + BLimb(b, i) + c
         IN  <<s % Base>> \o BAddC(a, b, i + 1, s \div Base)

BAdd(a, b) == BAddC(a, b, 1, 0)

RECURSIVE BSubC(_, _, _, _)
BSubC(a, b, i, br) ==
    IF i > Len(a) THEN <<>>
    ELSE LET s == a[i] - BLimb(b, i) - br
         IN  <<s % Base>> \o BSubC(a, b, i + 1, IF s < 0 THEN 1 ELSE 0)

\* a - b, for a >= b
BSub(a, b) == BStrip(BSubC(a, b, 1, 0))

RECURSIVE BCmpAt(_, _, _)
BCmpAt(a, b, i) ==
    IF i = 0 THEN 0
    ELSE IF a[i] > b[i] THEN 1
    ELSE IF a[i] < b[i] THEN -1
    ELSE BCmpAt(a, b, i - 1)

\* -1, 0 or 1 as a < b, a = b, a > b
BCmp(a, b) ==
    IF Len(a) > Len(b) THEN 1
    ELSE IF Len(a) < Len(b) THEN -1
    ELSE BCmpAt(a, b, Len(a))

RECURSIVE BMulSmallC(_, _, _, _)
BMulSmallC(a, k, i, c) ==
    IF i > Len(a)
    THEN IF c = 0 THEN <<>> ELSE <<c>>
    ELSE LET s == a[i] * k + c
         IN  <<s % Base>> \o BMulSmallC(a, k, i + 1, s \div Base)

\* a * k, for 0 <= k < Base
BMulSmall(a, k) == BMulSmallC(a, k, 1, 0)

RECURSIVE BMulAt(_, _, _)
BMulAt(a, b, j) ==
    IF j > Len(b) THEN <<>>
    ELSE BAdd(BMulSmall(a, b[j]), <<0>> \o BMulAt(a, b, j + 1))

BMul(a, b) == BStrip(BMulAt(a, b, 1))

\* a * 2^k
BShl(a, k) ==
    IF a = <<>> THEN <<>>
    ELSE [i \in 1..(k \div LimbBits) |-> 0] \o BMulSmall(a, 2^(k % LimbBits))

\* a \div 2^k
BShr(a, k) ==
    LET d == k \div LimbBits
        b == k % LimbBits
        r == SubSeq(a, d + 1, Len(a))
    IN  BStrip([i \in 1..Len(r) |->
                  (r[i] \div 2^b) + (BLimb(r, i + 1) % 2^b) * 2^(LimbBits - b)])

RECURSIVE LimbLen(_)
LimbLen(x) == IF x = 0 THEN 0 ELSE 1 + LimbLen(x \div 2)

\* number of significant bits of a
BitLen(a) == IF a = <<>> THEN 0 ELSE LimbBits * (Len(a) - 1) + LimbLen(a[Len(a)])

\* bit i of a, bit 0 the lowest
BBit(a, i) == (BLimb(a, (i \div LimbBits) + 1) \div 2^(i % LimbBits)) % 2

RECURSIVE BTzFrom(_, _)
BTzFrom(a, i) == IF BBit(a, i) = 1 THEN i ELSE BTzFrom(a, i + 1)

\* number of trailing zero bits of a > 0
BTz(a) == BTzFrom(a, 0)

\* -------------------------------------------------------------- floats
\* Significant bits of a Python float (binary64).
Precision == 53

FZero == [neg |-> FALSE, m |-> <<>>, e |-> 0]

\* The float of value m * 2^e (m > 0, at most Precision bits), m made odd.
FCanon(neg, m, e) ==
    LET tz == BTz(m) IN [neg |-> neg, m |-> BShr(m, tz), e |-> e + tz]

\* The lowest exponent of a float: 2^MinExponent is the smallest positive one,
\* and every float is a multiple of it (gradual underflow).
MinExponent == -1074

\* The float nearest to m * 2^e (m > 0 of any size), ties to even: m keeps at
\* most Precision bits and no bit under 2^MinExponent.
FRound(neg, m, e) ==
    LET L   == BitLen(m)
        sh0 == L - Precision
        sh1 == MinExponent - e
        sh  == IF sh0 > sh1 THEN sh0 ELSE sh1
    IN
    IF sh <= 0 THEN FCanon(neg, m, e)
    ELSE LET q      == BShr(m, sh)
             guard  == BBit(m, sh - 1)
             sticky == BTz(m) < sh - 1
             up     == guard = 1 /\ (sticky \/ BBit(q, 0) = 1)
             r      == IF up THEN BAdd(q, <<1>>) ELSE q
         IN  IF r = <<>> THEN FZero ELSE FCanon(neg, r, e + sh)

FNeg(a) == IF a.m = <<>> THEN a ELSE [a EXCEPT !.neg = ~a.neg]

\* a + b
FAdd(a, b) ==
    IF a.m = <<>> THEN b
    ELSE IF b.m = <<>> THEN a
    ELSE LET emin == IF a.e < b.e THEN a.e ELSE b.e
             A    == BShl(a.m, a.e - emin)
             B    == BShl(b.m, b.e - emin)
             c    == BCmp(A, B)
         IN  IF a.neg = b.neg THEN FRound(a.neg, BAdd(A, B), emin)
             ELSE IF c = 0 THEN FZero
             ELSE IF c > 0 THEN FRound(a.neg, BSub(A, B), emin)
             ELSE FRound(b.neg, BSub(B, A), emin)

\* a - b
FSub(a, b) == FAdd(a, FNeg(b))

\* a * b
FMul(a, b) ==
    IF a.m = <<>> \/ b.m = <<>> THEN FZero
    ELSE FRound(a.neg # b.neg, BMul(a.m, b.m), a.e + b.e)

\* a < b, a <= b (the sign of the exact difference survives its rounding)
FLt(a, b) == FSub(a, b).neg
FLe(a, b) == ~FLt(b, a)

\* ---------------------------------------------------- float literals
F(neg, m, e) == [neg |-> neg, m |-> m, e |-> e]

Zero       == FZero                                          \* 0.0
One        == F(FALSE, <<1>>, 0)                             \* 1.0
Half       == F(FALSE, <<1>>, -1)                            \* 0.5
Hundredth  == F(FALSE, <<5243, 3932, 27525, 163>>, -59)      \* 0.01
Rate003    == F(FALSE, <<9175, 31457, 23592, 30>>, -55)      \* 0.03
Rate0288   == F(FALSE, <<24379, 6815, 14942, 147>>, -54)     \* 0.288
NineTenths == F(FALSE, <<19661, 6553, 13107, 230>>, -53)     \* 0.9
Three      == F(FALSE, <<3>>, 0)                             \* 3.0
Tiny       == F(FALSE, <<1>>, -537)                          \* 2.0**-537

\* math.cos(math.pi*(pos/period)) for 0 <= pos < period <= 5: the binary64
\* values the expression evaluates to.
CosPi(pos, period) ==
    CASE pos = 0 -> One
      [] period = 2 /\ pos = 1 -> F(FALSE, <<23559, 26152, 6296, 141>>, -106) \* 6.123233995736766e-17
      [] period = 3 /\ pos = 1 -> F(FALSE, <<1, 0, 0, 128>>, -53)             \* 0.5000000000000001
      [] period = 3 /\ pos = 2 -> F(TRUE, <<32767, 32767, 32767, 63>>, -52)   \* -0.4999999999999998
      [] period = 4 /\ pos = 1 -> F(FALSE, <<15309, 19710, 633, 181>>, -53)   \* 0.7071067811865476
      [] period = 4 /\ pos = 2 -> F(FALSE, <<23559, 26152, 6296, 141>>, -106) \* 6.123233995736766e-17
      [] period = 4 /\ pos = 3 -> F(TRUE, <<20211, 13119, 8350, 45>>, -51)    \* -0.7071067811865475
      [] period = 5 /\ pos = 1 -> F(FALSE, <<32405, 26341, 29115, 25>>, -50)  \* 0.8090169943749475
      [] period = 5 /\ pos = 2 -> F(FALSE, <<32405, 26341, 29115, 9>>, -50)   \* 0.30901699437494745
      [] period = 5 /\ pos = 3 -> F(TRUE, <<29863, 14127, 3550, 79>>, -53)    \* -0.30901699437494734
      [] period = 5 /\ pos = 4 -> F(TRUE, <<29863, 14127, 3550, 207>>, -53)   \* -0.8090169943749473

\* -------------------------------------------------------------- bounds
MaxEpoch     == 8    \* epoch_number arguments range over -NegEpochs..MaxEpoch
NegEpochs    == 1
MaxBase      == 3    \* total_iters_per_period ranges over -NegBases..MaxBase
NegBases     == 2
MaxExpansion == 2    \* period_iteration_expansion_factor ranges over 1..MaxExpansion

Epochs == (0 - NegEpochs)..MaxEpoch
BasePeriods == (0 - NegBases)..MaxBase

\* (min_learning_rate, max_learning_rate, max_learning_rate_discount_factor)
RateConfigs ==
    { <<Zero, One, One>>, <<Zero, One, Half>>,
      <<Rate003, Rate0288, One>>, <<Rate003, Rate0288, NineTenths>>,
      <<Half, One, Half>>,
      <<Zero, Three, Tiny>> }     \* its peak underflows at the third discount

ConstantRates == {Hundredth, Half}

\* Python's None, and the attribute of an object that does not exist
PyNone == [none |-> TRUE]

\* ---------------------------------------------------------------- state
VARIABLES
    scheduler,       \* class of the scheduler of the run: "constant" or "cosine"
    learning_rate,   \* ConstantLearningRateScheduler.learning_rate
    min_learning_rate, max_learning_rate, total_epochs_per_period,
    max_learning_rate_discount_factor, period_iteration_expansion_factor,
    tNext, tPeriod, tCur, t,      \* CosineAnnealingWithWarmRestarts fields
    learning_rule,   \* the learning rule: its learning_rate attribute and the
                     \* number of reset() calls it has received
    call,            \* the last update_learning_rule call: its argument, what it
                     \* returned and the locals it computed
    restarts,        \* the restarts so far, oldest first: epoch, peak and rate
    loop_epoch       \* the epoch the training loop runs next while the calls so
                     \* far were exactly epochs 0, 1, 2, ... in order; else -1

hyper == <<scheduler, learning_rate, min_learning_rate, max_learning_rate,
           total_epochs_per_period, max_learning_rate_discount_factor,
           period_iteration_expansion_factor>>
vars == <<hyper, tNext, tPeriod, tCur, t, learning_rule, call, restarts, loop_epoch>>

NoCall == [made |-> FALSE]

\* ------------------------------------------------- ConstantLearningRateScheduler
ConstantInit(rate) ==
    /\ scheduler = "constant"
    /\ learning_rate = rate
    /\ min_learning_rate = PyNone /\ max_learning_rate = PyNone
    /\ total_epochs_per_period = PyNone
    /\ max_learning_rate_discount_factor = PyNone
    /\ period_iteration_expansion_factor = PyNone
    /\ tNext = PyNone /\ tPeriod = PyNone /\ tCur = PyNone /\ t = PyNone

\* learning_rule.learning_rate = rate
SetLearningRate_Skipped(rule, rate) == rule
SetLearningRate(rule, rate) == [rule EXCEPT !.learning_rate = rate]

\* update_learning_rule(learning_rule, epoch_number): sets the attribute of the
\* learning rule; the method has no return statement.
ConstantUpdate(epoch_number) ==
    /\ scheduler = "constant"
    /\ learning_rule' = SetLearningRate(learning_rule, learning_rate)
    /\ call' = [made |-> TRUE, epoch |-> epoch_number, h |-> PyNone]
    /\ UNCHANGED <<hyper, tNext, tPeriod, tCur, t, restarts, loop_epoch>>

\* ------------------------------------------------- CosineAnnealingWithWarmRestarts
CosineInit(min_rate, max_rate, total_iters_per_period, discount, expansion) ==
    /\ scheduler = "cosine"
    /\ learning_rate = PyNone
    /\ min_learning_rate = min_rate
    /\ max_learning_rate = max_rate
    /\ total_epochs_per_period = total_iters_per_period
    /\ max_learning_rate_discount_factor = discount
    /\ period_iteration_expansion_factor = expansion
    /\ tNext = total_iters_per_period
    /\ tPeriod = total_iters_per_period
    /\ tCur = 0
    /\ t = 0

Abs(n) == IF n < 0 THEN 0 - n ELSE n

\* Python's a % b for b # 0: the remainder has the sign of b
PyMod(a, b) == IF b > 0 THEN a % b ELSE 0 - ((0 - a) % (0 - b))

\* Python's int(a/b) for b # 0: the quotient truncated towards 0
PyTruncDiv(a, b) ==
    IF (a >= 0) = (b > 0) THEN Abs(a) \div Abs(b)
    ELSE 0 - (Abs(a) \div Abs(b))

\* epoch_number % self.total_epochs_per_period
Position(epoch_number) == PyMod(epoch_number, total_epochs_per_period)

\* int(epoch_number/self.total_epochs_per_period): the quotient truncated to 0
CycleCount(epoch_number) == PyTruncDiv(epoch_number, total_epochs_per_period)

\* effective_max_learning_rate after the loop `for i in range(n)`
EffectiveMax_Undiscounted(n) == max_learning_rate
RECURSIVE EffectiveMax(_)
EffectiveMax(n) ==
    IF n <= 0 THEN max_learning_rate
    ELSE FMul(EffectiveMax(n - 1), max_learning_rate_discount_factor)

\* if (epoch_number==self.tNext), with self.tNext = next_restart
RestartAt_OrLater(next_restart, epoch_number) == epoch_number >= next_restart
RestartAt_EveryCycle(next_restart, epoch_number) ==
    Position(epoch_number) = 0
RestartAt(next_restart, epoch_number) == epoch_number = next_restart

\* self.tPeriod *= self.period_iteration_expansion_factor
ExpandPeriod_Same == tPeriod
ExpandPeriod_Divided == tPeriod \div period_iteration_expansion_factor
ExpandPeriod_Added == tPeriod + period_iteration_expansion_factor
ExpandPeriod == tPeriod * period_iteration_expansion_factor

\* the position the rate formula reads: self.tCur after the restart branch
FormulaPosition(next_restart, epoch_number) ==
    IF RestartAt(next_restart, epoch_number) THEN 0 ELSE Position(epoch_number)

\* h = min + 0.5*(effective_max - min)*(1 + cos(pi*(tCur/total_epochs_per_period)))
\* (tCur has the sign of the period or is 0: the quotient is that of the
\* absolute values)
Rate(effective_max_learning_rate, pos) ==
    FAdd(min_learning_rate,
         FMul(FMul(Half, FSub(effective_max_learning_rate, min_learning_rate)),
              FAdd(One, CosPi(Abs(pos), Abs(total_epochs_per_period)))))

\* what update_learning_rule(learning_rule, epoch_number) returns when the
\* instance's tNext is next_restart
ReturnedRate(next_restart, epoch_number) ==
    Rate(EffectiveMax(CycleCount(epoch_number)),
         FormulaPosition(next_restart, epoch_number))

\* self.tCur += 1
StoredPosition_NotIncremented(pos) == pos
StoredPosition(pos) == pos + 1

\* The call with a period of 0: epoch_number % 0 raises ZeroDivisionError before
\* anything is assigned.
CosineUpdateRaises(epoch_number) ==
    /\ scheduler = "cosine"
    /\ total_epochs_per_period = 0
    /\ call' = [made |-> TRUE, epoch |-> epoch_number, h |-> PyNone,
                raised |-> "ZeroDivisionError", reset |-> FALSE]
    /\ loop_epoch' = -1
    /\ UNCHANGED <<hyper, tNext, tPeriod, tCur, t, learning_rule, restarts>>

CosineUpdate(epoch_number) ==
    /\ scheduler = "cosine"
    /\ total_epochs_per_period # 0
    /\ LET effective_max_learning_rate == EffectiveMax(CycleCount(epoch_number))
           restart == RestartAt(tNext, epoch_number)
           pos     == FormulaPosition(tNext, epoch_number)
           h       == ReturnedRate(tNext, epoch_number)
       IN  /\ tPeriod' = IF restart THEN ExpandPeriod ELSE tPeriod
           /\ tNext' = IF restart THEN tNext + tPeriod' ELSE tNext
           /\ t' = IF restart THEN CycleCount(epoch_number) + 1
                   ELSE CycleCount(epoch_number)
           /\ tCur' = StoredPosition(pos)
           /\ learning_rule' =
                 IF restart
                 THEN [learning_rule EXCEPT !.resets = learning_rule.resets + 1]
                 ELSE learning_rule
           /\ call' = [made |-> TRUE, epoch |-> epoch_number, h |-> h,
                       raised |-> "none", reset |-> restart, pos |-> pos,
                       peak |-> effective_max_learning_rate]
           /\ restarts' =
                 IF restart
                 THEN Append(restarts, [epoch |-> epoch_number,
                                        peak |-> effective_max_learning_rate,
                                        h |-> h])
                 ELSE restarts
    /\ loop_epoch' = IF epoch_number = loop_epoch /\ loop_epoch >= 0
                     THEN loop_epoch + 1 ELSE -1
    /\ UNCHANGED hyper

\* ------------------------------------------------------------ the run
Init ==
    /\ \/ \E rate \in ConstantRates : ConstantInit(rate)
       \/ \E rc \in RateConfigs, p \in BasePeriods, x \in 1..MaxExpansion :
             CosineInit(rc[1], rc[2], p, rc[3], x)
    /\ learning_rule = [learning_rate |-> PyNone, resets |-> 0]
    /\ call = NoCall
    /\ restarts = <<>>
    /\ loop_epoch = 0

Next ==
    \/ \E epoch_number \in Epochs : ConstantUpdate(epoch_number)
    \/ \E epoch_number \in Epochs : CosineUpdate(epoch_number)
    \/ \E epoch_number \in Epochs : CosineUpdateRaises(epoch_number)

Spec == Init /\ [][Next]_vars

\* --------------------------------------------------------------- claims
\* the run uses the cosine scheduler in a valid configuration (a positive period)
Cosine == scheduler = "cosine" /\ total_epochs_per_period > 0
CosineCall == Cosine /\ call.made
\* the calls so far were epochs 0, 1, ..., loop_epoch - 1, once each, in order
InLoop == Cosine /\ loop_epoch >= 0
\* 0.5 * x is exact: x is 0 or a multiple of 2^(MinExponent + 1)
ExactHalf(x) == x.m = <<>> \/ x.e > MinExponent
\* min + 0.5*(peak - min)*(1 + cos(0)) as floating point evaluates it
RateAtPeak(peak) ==
    FAdd(min_learning_rate,
         FMul(FMul(Half, FSub(peak, min_learning_rate)), FAdd(One, One)))
\* the smallest normal float, 2.0**-1022
MinNormal == F(FALSE, <<1>>, -1022)

\* C1 (as claimed): a call invokes reset() exactly once if its epoch_number is
\* tNext as it stood before the call and not at all otherwise; when the restart
\* fires, the rate formula reads position 0 and the call returns the effective
\* peak, max_learning_rate discounted (epoch_number div period) times.
C1_Original ==
    [][Cosine =>
          LET e == call'.epoch IN
          /\ learning_rule'.resets - learning_rule.resets =
                IF e = tNext THEN 1 ELSE 0
          /\ e = tNext =>
                /\ call'.pos = 0
                /\ call'.h = EffectiveMax(e \div total_epochs_per_period)]_vars

\* C1 (amended): reset() is invoked exactly once if epoch_number is tNext as it
\* stood before the call and not at all otherwise; when the restart fires, the
\* rate formula reads position 0 and the call returns
\* min + 0.5*(peak - min)*2 as floating point evaluates it, peak being
\* max_learning_rate discounted (epoch_number div period) times: the peak
\* itself when min_learning_rate is 0 and halving the peak does not underflow.
C1_ResetIffAtNextRestart ==
    [][Cosine =>
          LET e    == call'.epoch
              peak == EffectiveMax(e \div total_epochs_per_period)
          IN
          /\ learning_rule'.resets - learning_rule.resets =
                IF e = tNext THEN 1 ELSE 0
          /\ e = tNext =>
                /\ call'.pos = 0
                /\ call'.h = RateAtPeak(peak)
                /\ min_learning_rate = Zero /\ ExactHalf(peak) =>
                      call'.h = peak]_vars

\* A restart has fired and returned the halved peak of a schedule with minimum 0.
C1_Witness ==
    /\ CosineCall /\ call.reset /\ call.pos = 0
    /\ learning_rule.resets = 1
    /\ min_learning_rate = Zero /\ max_learning_rate = One
    /\ call.peak = Half /\ call.h = Half

\* C2 (as claimed): a call with epoch_number 0 fires no restart, reads position
\* 0 with cycle count 0 and no discount, and returns exactly max_learning_rate.
C2_Original ==
    CosineCall /\ call.epoch = 0 =>
        /\ ~call.reset
        /\ call.pos = 0 /\ t = 0
        /\ call.peak = max_learning_rate
        /\ call.h = max_learning_rate

\* C2 (amended): a call with epoch_number 0, from any reachable state, fires no
\* restart, reads position 0 with cycle count 0 and no discount, and returns
\* min + 0.5*(max - min)*2 as floating point evaluates it: exactly
\* max_learning_rate when min_learning_rate is 0 and halving max_learning_rate
\* does not underflow.
C2_EpochZeroReturnsPeak ==
    CosineCall /\ call.epoch = 0 =>
        /\ ~call.reset
        /\ call.pos = 0 /\ t = 0 /\ tCur = 1
        /\ call.peak = max_learning_rate
        /\ call.h = RateAtPeak(max_learning_rate)
        /\ min_learning_rate = Zero /\ ExactHalf(max_learning_rate) =>
              call.h = max_learning_rate

\* Epoch 0 is called again after two restarts, on a schedule with minimum 0 and
\* a discount.
C2_Witness ==
    /\ CosineCall /\ call.epoch = 0 /\ Len(restarts) = 2
    /\ min_learning_rate = Zero
    /\ max_learning_rate_discount_factor = Half
    /\ call.h = One

\* C3 (as claimed): with min <= max and a discount factor in (0, 1], every rate
\* returned for a non-negative epoch_number lies between min_learning_rate and
\* max_learning_rate.
C3_Original ==
    CosineCall /\ call.epoch >= 0
        /\ FLe(min_learning_rate, max_learning_rate)
        /\ FLt(Zero, max_learning_rate_discount_factor)
        /\ FLe(max_learning_rate_discount_factor, One) =>
            /\ FLe(min_learning_rate, call.h)
            /\ FLe(call.h, max_learning_rate)

\* C4 (as claimed): in the training loop (epochs 0, 1, 2, ... once each) the
\* peak is discounted once per restart: the first restart uses
\* max_learning_rate discounted once and every later restart uses the previous
\* restart's peak discounted once more, whatever the expansion factor.
C4_Original ==
    InLoop =>
        \A k \in 1..Len(restarts) :
            restarts[k].peak =
                FMul(IF k = 1 THEN max_learning_rate ELSE restarts[k - 1].peak,
                     max_learning_rate_discount_factor)

\* C5 (as claimed): in the training loop, with a discount factor in (0, 1) and
\* a positive max_learning_rate, the peak used at each restart is strictly
\* smaller than the peak used at the restart before it.
C5_Original ==
    InLoop /\ FLt(Zero, max_learning_rate_discount_factor)
           /\ FLt(max_learning_rate_discount_factor, One)
           /\ FLt(Zero, max_learning_rate) =>
        \A k \in 2..Len(restarts) : FLt(restarts[k].peak, restarts[k - 1].peak)

\* C5 (amended): in the training loop, with a discount factor in (0, 1) and a
\* positive max_learning_rate, the peak used at a restart is never larger than
\* the peak used at the restart before it, and strictly smaller whenever that
\* earlier peak is above the smallest normal float, 2.0**-1022 (a peak that
\* has underflowed to 0 stays 0).
C5_PeakDecreasesUntilUnderflow ==
    InLoop /\ FLt(Zero, max_learning_rate_discount_factor)
           /\ FLt(max_learning_rate_discount_factor, One)
           /\ FLt(Zero, max_learning_rate) =>
        \A k \in 2..Len(restarts) :
            /\ FLe(restarts[k].peak, restarts[k - 1].peak)
            /\ FLt(MinNormal, restarts[k - 1].peak) =>
                  FLt(restarts[k].peak, restarts[k - 1].peak)

\* The loop has seen four restarts of the schedule whose discount factor is
\* 2.0**-537: the peak fell twice, underflowed to 0 at the third restart and
\* is 0 again at the fourth.
C5_Witness ==
    /\ InLoop /\ Len(restarts) = 4
    /\ max_learning_rate_discount_factor = Tiny
    /\ FLt(MinNormal, restarts[1].peak)
    /\ FLt(restarts[2].peak, restarts[1].peak)
    /\ FLt(Zero, restarts[2].peak)
    /\ restarts[3].peak = Zero /\ restarts[4].peak = Zero

\* the number of epochs between restart k and the one before it
Gap(k) == restarts[k].epoch - restarts[k - 1].epoch

\* C6: in the training loop, with an expansion factor above 1 the number of
\* epochs between successive restarts strictly increases; with an expansion
\* factor of 1 every period, the first included, has total_epochs_per_period
\* epochs.
C6_PeriodsExpand ==
    InLoop =>
        /\ period_iteration_expansion_factor > 1 =>
              \A k \in 3..Len(restarts) : Gap(k) > Gap(k - 1)
        /\ period_iteration_expansion_factor = 1 =>
              /\ \A k \in 2..Len(restarts) : Gap(k) = total_epochs_per_period
              /\ Len(restarts) >= 1 => restarts[1].epoch = total_epochs_per_period
        /\ learning_rule.resets = Len(restarts)

\* The loop has seen three restarts of a schedule that doubles its period.
C6_Witness ==
    /\ InLoop /\ Len(restarts) = 3
    /\ period_iteration_expansion_factor = 2
    /\ Gap(2) = 2 /\ Gap(3) = 4

\* in the training loop with expansion factor 1, after the call for the epoch
\* call.epoch: the restarts so far are those of the positive multiples of the
\* period up to that epoch, and the call restarted if its epoch is one of them
RestartsAtMultiples ==
    /\ call.reset <=> (call.epoch > 0 /\ call.epoch % total_epochs_per_period = 0)
    /\ Len(restarts) = call.epoch \div total_epochs_per_period
    /\ learning_rule.resets = Len(restarts)
    /\ \A k \in 1..Len(restarts) :
          restarts[k].epoch = k * total_epochs_per_period

\* C7 (as claimed): in the training loop with expansion factor 1, restarts fire
\* at exactly the positive multiples of total_epochs_per_period, and the rate
\* returned at epoch k * total_epochs_per_period is max_learning_rate
\* discounted k times.
C7_Original ==
    InLoop /\ call.made /\ period_iteration_expansion_factor = 1 =>
        /\ RestartsAtMultiples
        /\ call.epoch % total_epochs_per_period = 0 =>
              call.h = EffectiveMax(call.epoch \div total_epochs_per_period)

\* C7 (amended): in the training loop with expansion factor 1, restarts fire at
\* exactly the positive multiples of total_epochs_per_period, and the rate
\* returned at epoch k * total_epochs_per_period is min + 0.5*(peak - min)*2
\* as floating point evaluates it, peak being max_learning_rate discounted k
\* times: the peak itself when min_learning_rate is 0 and halving the peak
\* does not underflow (min 0, max 1: 1.0 at
\* epoch 0; with discount 1.0, 1.0 at the first restart; with discount 0.5,
\* 0.5 at the first restart and 0.25 at the second).
C7_RestartsAtMultiplesOfPeriod ==
    InLoop /\ call.made /\ period_iteration_expansion_factor = 1 =>
        /\ RestartsAtMultiples
        /\ call.epoch % total_epochs_per_period = 0 =>
              LET k    == call.epoch \div total_epochs_per_period
                  peak == EffectiveMax(k)
              IN  /\ call.h = RateAtPeak(peak)
                  /\ min_learning_rate = Zero /\ ExactHalf(peak) =>
                        call.h = peak
                  /\ min_learning_rate = Zero /\ max_learning_rate = One =>
                        /\ k = 0 => call.h = One /\ ~call.reset
                        /\ max_learning_rate_discount_factor = One /\ k = 1 =>
                              call.h = One /\ call.reset
                        /\ max_learning_rate_discount_factor = Half /\ k = 1 =>
                              call.h = Half
                        /\ max_learning_rate_discount_factor = Half /\ k = 2 =>
                              call.h = FMul(Half, Half)

\* The loop reaches the second restart of the schedule min 0, max 1, discount
\* 0.5, period 3, which returns 0.25.
C7_Witness ==
    /\ InLoop /\ call.made /\ period_iteration_expansion_factor = 1
    /\ total_epochs_per_period = 3 /\ call.epoch = 6 /\ call.reset
    /\ min_learning_rate = Zero /\ max_learning_rate = One
    /\ max_learning_rate_discount_factor = Half
    /\ call.h = FMul(Half, Half)

\* C8 (as claimed): with max > min, among the calls that fire no restart the
\* returned rate strictly decreases with the position in the cycle: the last
\* call, at a non-negative epoch, returned less than a call returns at any
\* epoch of the same cycle with a smaller position, in every cycle.
C8_Original ==
    CosineCall /\ ~call.reset /\ call.epoch >= 0
        /\ FLt(min_learning_rate, max_learning_rate) =>
            \A e1 \in 0..MaxEpoch :
                /\ CycleCount(e1) = CycleCount(call.epoch)
                /\ Position(e1) < Position(call.epoch)
                /\ e1 # tNext
                => FLt(call.h, ReturnedRate(tNext, e1))

\* C9: the rate a call returns is the rate a freshly constructed instance with
\* the same hyperparameters returns for the same epoch_number, whatever calls
\* the instance has served before.
C9_RateIndependentOfHistory ==
    CosineCall => call.h = ReturnedRate(total_epochs_per_period, call.epoch)

\* An instance that has restarted twice is called with the epoch at which a
\* fresh instance restarts.
C9_Witness ==
    /\ CosineCall /\ Len(restarts) = 2 /\ ~call.reset
    /\ call.epoch = total_epochs_per_period
    /\ tPeriod > total_epochs_per_period
    /\ max_learning_rate_discount_factor = NineTenths

Constant == scheduler = "constant"
FreshLearningRule == [learning_rate |-> PyNone, resets |-> 0]

\* C10 (as claimed): the constant scheduler's update returns the configured
\* rate for every epoch_number and changes neither the scheduler nor the
\* learning rule.
C10_Original ==
    Constant /\ call.made =>
        /\ call.h = learning_rate
        /\ learning_rule = FreshLearningRule

\* C10 (amended): for every epoch_number, negative and zero included, the
\* constant scheduler's update_learning_rule returns nothing (None); it assigns
\* the configured rate to the learning rule's learning_rate attribute, never
\* calls reset(), and leaves the scheduler's own learning_rate unchanged.
C10_ConstantAssignsRate ==
    [][Constant =>
          /\ call'.h = PyNone
          /\ learning_rule'.learning_rate = learning_rate
          /\ learning_rule'.resets = learning_rule.resets
          /\ learning_rate' = learning_rate]_vars

\* The constant scheduler has been called with a negative epoch_number and the
\* learning rule holds its rate, 0.01.
C10_Witness ==
    /\ Constant /\ call.made /\ call.epoch < 0
    /\ learning_rate = Hundredth
    /\ learning_rule.learning_rate = Hundredth

\* ----------------------------------------------------------------- C11 .. C20
CosineConstructed == scheduler = "cosine"
StoredState == <<tCur, t, tPeriod, tNext>>

\* C11 (as claimed): a cosine call with a negative epoch_number fails with an
\* error: it returns no rate, does not invoke reset() and leaves tCur, t,
\* tPeriod and tNext as they were.
C11_Original ==
    [][Cosine /\ call'.made /\ call'.epoch < 0 =>
          /\ call'.raised # "none"
          /\ call'.h = PyNone
          /\ learning_rule'.resets = learning_rule.resets
          /\ UNCHANGED StoredState]_vars

\* C12 (as claimed): with a period of 0 or less every call fails with an error,
\* whatever its epoch_number: no rate is returned and the state stays as it was.
C12_Original ==
    [][CosineConstructed /\ total_epochs_per_period <= 0 /\ call'.made =>
          /\ call'.raised # "none"
          /\ call'.h = PyNone
          /\ UNCHANGED <<StoredState, learning_rule>>]_vars

\* C13 (as claimed): the stored cycle count t is the number of restarts (reset()
\* calls) so far; here in the states of the training loop alone, where the
\* calls so far were epochs 0, 1, 2, ... in order.
C13_Original ==
    InLoop => t = learning_rule.resets

\* C14 (as claimed): in the training loop the position used in the formula is 0
\* exactly at the restart epochs and at epoch 0, and from one call to the next
\* without a restart it grows by exactly 1.
C14_Original ==
    [][InLoop' =>
          /\ (call'.pos = 0) <=> (call'.reset \/ call'.epoch = 0)
          /\ (call.made /\ ~call'.reset) => call'.pos = call.pos + 1]_vars

\* C15 (as claimed): 0 <= tCur < tPeriod at construction and after every call;
\* here after the calls with an epoch_number of 0 or more alone.
C15_Original ==
    Cosine /\ (call.made => call.epoch >= 0) => 0 <= tCur /\ tCur < tPeriod

\* C15 (amended): with a positive period and an expansion factor of at least 1,
\* the stored tCur is 0 from construction until the first call, and after every
\* call (a negative epoch_number included) it is the position used in the
\* formula plus one: 1 <= tCur <= base period <= tPeriod.
C15_StoredPositionInRange ==
    Cosine =>
        /\ ~call.made => tCur = 0
        /\ call.made =>
              /\ tCur = call.pos + 1
              /\ 1 <= tCur /\ tCur <= total_epochs_per_period
        /\ tCur <= tPeriod

\* A call at the last epoch of a period has left tCur equal to tPeriod.
C15_Witness ==
    /\ CosineCall /\ tCur = tPeriod
    /\ total_epochs_per_period = 3 /\ call.epoch = 5

\* C16: with an expansion factor of at least 1 (and a positive base period),
\* tPeriod is at least the base period in every reachable state, and it is the
\* base period in every state before the first restart.
C16_PeriodAtLeastBase ==
    Cosine =>
        /\ tPeriod >= total_epochs_per_period
        /\ learning_rule.resets = 0 => tPeriod = total_epochs_per_period

\* One restart with expansion factor 2 has doubled the period.
C16_Witness ==
    /\ Cosine /\ learning_rule.resets = 1
    /\ period_iteration_expansion_factor = 2
    /\ tPeriod = 2 * total_epochs_per_period

\* C17: a call whose epoch_number differs from tNext leaves tPeriod and tNext
\* unchanged; a call whose epoch_number is tNext multiplies tPeriod by the
\* expansion factor and adds the new tPeriod to tNext.
C17_RestartBookkeeping ==
    [][Cosine =>
          IF call'.epoch = tNext
          THEN /\ tPeriod' = tPeriod * period_iteration_expansion_factor
               /\ tNext' = tNext + tPeriod'
          ELSE /\ tPeriod' = tPeriod
               /\ tNext' = tNext]_vars

\* Two restarts with expansion factor 2: the period is 4 base periods and the
\* next restart is due at 1 + 2 + 4 base periods.
C17_Witness ==
    /\ CosineCall /\ call.reset /\ Len(restarts) = 2
    /\ period_iteration_expansion_factor = 2
    /\ tPeriod = 4 * total_epochs_per_period
    /\ tNext = 7 * total_epochs_per_period

\* The training loop: update_learning_rule is run at the beginning of each
\* epoch, for the epochs 0, 1, 2, ... in order (up to MaxEpoch).
TrainingLoopStep ==
    /\ loop_epoch \in 0..MaxEpoch
    /\ \/ CosineUpdate(loop_epoch)
       \/ CosineUpdateRaises(loop_epoch)

\* The loop goes on to its next epoch (or ends on the error the call raised):
\* the steps of TrainingLoopStep, which is enabled exactly when this is.
TrainingLoopAdvances ==
    /\ scheduler = "cosine"
    /\ loop_epoch \in 0..MaxEpoch
    /\ loop_epoch' \in {loop_epoch + 1, -1}

\* The loop never stops before its last epoch.
TrainingLoop ==
    Init /\ [][TrainingLoopStep]_vars /\ WF_loop_epoch(TrainingLoopAdvances)

\* C18: in the training loop (positive base period, integer expansion factor of
\* at least 1) tNext is above the epoch just processed after every call, and
\* every value tNext takes within the epochs of the run is reached by the loop,
\* where the restart fires and tNext moves on.
C18_NextRestartAheadAndReached ==
    /\ [](InLoop /\ call.made => tNext > call.epoch)
    /\ \A n \in 1..MaxEpoch :
          (InLoop /\ tNext = n) ~>
              (CosineCall /\ call.reset /\ call.epoch = n /\ tNext > n)

\* The loop has reached its third restart (expansion factor 2, base period 1:
\* epochs 1, 3 and 7) and the next one is due at epoch 15.
C18_Witness ==
    /\ InLoop /\ call.made /\ call.reset /\ call.epoch = 7
    /\ learning_rule.resets = 3
    /\ tNext = 15

\* C19: once a call has passed tNext (its epoch_number is above tNext and it was
\* no restart), a following call with the same or a later epoch_number fires no
\* restart, leaves tPeriod and tNext unchanged and has passed tNext in turn: with
\* non-decreasing epoch numbers the restart is missed for good.
C19_MissedRestartIsPermanent ==
    [][Cosine /\ call.made /\ call.epoch > tNext /\ call'.epoch >= call.epoch =>
          /\ ~call'.reset
          /\ learning_rule'.resets = learning_rule.resets
          /\ tPeriod' = tPeriod
          /\ tNext' = tNext
          /\ call'.epoch > tNext']_vars

\* The first restart fired at epoch 2, the one due at epoch 4 was passed, and
\* the call at epoch 8 leaves it due at 4.
C19_Witness ==
    /\ CosineCall /\ call.epoch = 8 /\ ~call.reset
    /\ total_epochs_per_period = 2
    /\ learning_rule.resets = 1 /\ tNext = 4

\* C20: for an integer expansion factor of at least 1 (and a positive base
\* period), tNext and tPeriod are positive multiples of the base period in every
\* reachable state; so a call that restarts has an epoch_number that is 0 modulo
\* the base period, and the position used in the formula is the recomputed one.
C20_RestartsAligned ==
    Cosine =>
        /\ tNext > 0 /\ tNext % total_epochs_per_period = 0
        /\ tPeriod > 0 /\ tPeriod % total_epochs_per_period = 0
        /\ call.made /\ call.reset =>
              /\ Position(call.epoch) = 0
              /\ call.pos = Position(call.epoch)

\* The second restart of a scheduler with base period 2 and expansion factor 2
\* fired at epoch 6.
C20_Witness ==
    /\ CosineCall /\ call.reset /\ call.epoch = 6
    /\ total_epochs_per_period = 2
    /\ period_iteration_expansion_factor = 2
    /\ tPeriod = 8 /\ tNext = 14
====
